---- MODULE Spec2Model ----
(***************************************************************************)
(* Strapi-Generator: src/src/generate.js (class StrapiGenerator) and the   *)
(* command line entry point src/bin/index.js.                              *)
(*                                                                         *)
(* Identifiers the code transforms character by character (table names,    *)
(* the table prefix, singular names) are sequences of one-character        *)
(* strings, so that toKebabCase and String.prototype.startsWith are        *)
(* computed, not assumed.  Column names and data types are only compared   *)
(* or looked up, and are plain strings.                                    *)
(*                                                                         *)
(* JavaScript values whose type matters are tagged records                 *)
(* [jsType |-> ..., value |-> ...].                                        *)
(***************************************************************************)
EXTENDS Integers, Sequences, FiniteSets, TLC

VARIABLES
    env,          \* process.env.SOURCE_DB_TABLE_PREFIX: <<>> unset, <<v>> set to v
    tablePrefix,  \* this.tablePrefix
    catalog,      \* rows of INFORMATION_SCHEMA.COLUMNS for the configured database
    conn,         \* the mysql connection: "none" | "open" | "closed"
    queryRows,    \* [rows] of the catalog query, <<>> until it has answered
    queryResult,  \* "none" | "rows" | "error"
    schema,       \* the schema object, as its entries in insertion order
    schemaReads,  \* number of calls of getDatabaseSchema
    pc,           \* [at, idx, step]: position of bin/index.js and generateModules
    awaiting,     \* generateModules is suspended on the filesystem call of pc
    pending,      \* filesystem calls issued and not yet settled
    dirs,         \* directories that exist under <cwd>/src/api
    files,        \* path -> content of the files under <cwd>/src/api
    writeLog,     \* history: the completed file writes, in completion order
    errors,       \* history: the errors thrown, in order
    stdout,       \* console.log lines
    stderr,       \* console.error lines
    exitStatus,   \* <<>> while the process runs, <<code>> once it has exited
    call          \* last direct call of a pure method (specification SpecPure)

vars == <<env, tablePrefix, catalog, conn, queryRows, queryResult, schema,
          schemaReads, pc, awaiting, pending, dirs, files, writeLog, errors,
          stdout, stderr, exitStatus, call>>

runVars == <<env, tablePrefix, catalog, conn, queryRows, queryResult, schema,
             schemaReads, pc, awaiting, pending, dirs, files, writeLog, errors,
             stdout, stderr, exitStatus>>

(***************************************************************************)
(* Bounds.                                                                 *)
(***************************************************************************)
\* largest number of rows the catalog query returns
MaxRows == 2

\* largest number of column descriptors handed to createContentType directly
MaxCols == 2

(***************************************************************************)
(* Characters and strings.                                                 *)
(***************************************************************************)
UpperCase ==
  <<"A","B","C","D","E","F","G","H","I","J","K","L","M",
    "N","O","P","Q","R","S","T","U","V","W","X","Y","Z">>

LowerCase ==
  <<"a","b","c","d","e","f","g","h","i","j","k","l","m",
    "n","o","p","q","r","s","t","u","v","w","x","y","z">>

\* String.prototype.toLowerCase on one character
ToLowerChar(c) ==
  IF \E i \in 1..Len(UpperCase) : UpperCase[i] = c
  THEN LowerCase[CHOOSE i \in 1..Len(UpperCase) : UpperCase[i] = c]
  ELSE c

\* String.prototype.toUpperCase on one character
ToUpperChar(c) ==
  IF \E i \in 1..Len(LowerCase) : LowerCase[i] = c
  THEN UpperCase[CHOOSE i \in 1..Len(LowerCase) : LowerCase[i] = c]
  ELSE c

\* String.prototype.startsWith
StartsWith(str, prefix) ==
  /\ Len(prefix) <= Len(str)
  /\ SubSeq(str, 1, Len(prefix)) = prefix

\* the default of this.tablePrefix, 'tbl'
DefaultTablePrefix == <<"t","b","l">>

\* constructor: process.env.SOURCE_DB_TABLE_PREFIX || 'tbl'
\* (undefined and '' are both falsy)
Constructor(e) ==
  IF e = <<>> \/ e[1] = <<>> THEN DefaultTablePrefix ELSE e[1]

\* this.excludedFields
excludedFields ==
  {"id", "created_at", "updated_at", "published_at", "locale",
   "created_by_id", "updated_by_id", "document_id"}

\* toKebabCase: str.replace(/_/g, '-').toLowerCase()
toKebabCase(str) ==
  [i \in 1..Len(str) |-> ToLowerChar(IF str[i] = "_" THEN "-" ELSE str[i])]

(***************************************************************************)
(* mapDataTypeToStrapi.                                                    *)
(***************************************************************************)
JsString(s) == [jsType |-> "string", value |-> s]

JsFunction(n) == [jsType |-> "function", value |-> n]

JsObject(n) == [jsType |-> "object", value |-> n]

\* the own properties of the object literal typeMapping
typeMapping ==
  [int      |-> "integer",
   bigint   |-> "biginteger",
   varchar  |-> "string",
   text     |-> "text",
   datetime |-> "datetime",
   date     |-> "date",
   tinyint  |-> "boolean",
   decimal  |-> "float",
   double   |-> "float",
   float    |-> "float"]

\* typeMapping is an ordinary object: a property read that misses the own
\* properties continues on Object.prototype, whose members are all truthy
ObjectPrototypeFunctions ==
  {"constructor", "toString", "toLocaleString", "valueOf", "hasOwnProperty",
   "isPrototypeOf", "propertyIsEnumerable"}

\* typeMapping[dataType]: own property, else inherited, else undefined
PropertyRead(dataType) ==
  IF dataType \in DOMAIN typeMapping THEN JsString(typeMapping[dataType])
  ELSE IF dataType \in ObjectPrototypeFunctions THEN JsFunction(dataType)
  ELSE IF dataType = "__proto__" THEN JsObject("Object.prototype")
  ELSE [jsType |-> "undefined", value |-> "undefined"]

\* return typeMapping[dataType] || 'string'
mapDataTypeToStrapi(dataType) ==
  IF PropertyRead(dataType).jsType = "undefined"
  THEN JsString("string")
  ELSE PropertyRead(dataType)

(***************************************************************************)
(* getDatabaseSchema, lines 76-87: grouping the rows by table.             *)
(* The schema object is modelled by its entries in insertion order, which  *)
(* is the order of Object.entries for the table names used here (none is   *)
(* an array index or a member of Object.prototype).                        *)
(***************************************************************************)
ColumnOf(row) ==
  [name     |-> row.COLUMN_NAME,
   type     |-> row.DATA_TYPE,
   required |-> (row.IS_NULLABLE = "NO")]

HasTable(sch, t) == \E k \in 1..Len(sch) : sch[k].name = t

IndexOfTable(sch, t) == CHOOSE k \in 1..Len(sch) : sch[k].name = t

\* the table filter of the forEach callback
TableIncluded(tableName, prefix) == StartsWith(tableName, prefix)

\* one call of the forEach callback
AddRow(sch, row, prefix) ==
  IF TableIncluded(row.TABLE_NAME, prefix)
  THEN IF HasTable(sch, row.TABLE_NAME)
       THEN [sch EXCEPT ![IndexOfTable(sch, row.TABLE_NAME)].columns =
                          Append(@, ColumnOf(row))]
       ELSE Append(sch, [name |-> row.TABLE_NAME, columns |-> <<ColumnOf(row)>>])
  ELSE sch

RECURSIVE ForEachRow(_, _, _, _)
ForEachRow(rows, i, sch, prefix) ==
  IF i > Len(rows) THEN sch
  ELSE ForEachRow(rows, i + 1, AddRow(sch, rows[i], prefix), prefix)

BuildSchema(rows, prefix) == ForEachRow(rows, 1, <<>>, prefix)

TablesOf(sch) == {sch[k].name : k \in 1..Len(sch)}

(***************************************************************************)
(* createContentType: the descriptor.                                      *)
(***************************************************************************)
\* tableName without the prefix, when it starts with it
StripPrefix(tableName, prefix) ==
  IF StartsWith(tableName, prefix)
  THEN SubSeq(tableName, Len(prefix) + 1, Len(tableName))
  ELSE tableName

\* variant of singularNameOf: the configured prefix is removed first
singularNameOfStripped(tableName) ==
  toKebabCase(StripPrefix(tableName, tablePrefix))

\* const singularName = this.toKebabCase(tableName)
singularNameOf(tableName) == toKebabCase(tableName)

\* singularName.charAt(0).toUpperCase() + singularName.slice(1)
DisplayName(singularName) ==
  IF singularName = <<>> THEN <<>>
  ELSE <<ToUpperChar(singularName[1])>> \o SubSeq(singularName, 2, Len(singularName))

\* attributes.filter(attr => !this.excludedFields.includes(attr.name))
IsKept(attr) == attr.name \notin excludedFields

\* one call of the reducer.  acc starts as the object literal {}: assigning
\* the key "__proto__" runs the inherited setter, which replaces the
\* prototype of acc and creates no own property; every other key becomes
\* (or overwrites) an own property.
ReduceStep(acc, attr) ==
  IF attr.name = "__proto__" THEN acc
  ELSE [k \in (DOMAIN acc) \cup {attr.name} |->
          IF k = attr.name
          THEN [type |-> mapDataTypeToStrapi(attr.type), required |-> attr.required]
          ELSE acc[k]]

RECURSIVE Reduce(_, _, _)
Reduce(attrs, i, acc) ==
  IF i > Len(attrs) THEN acc
  ELSE Reduce(attrs, i + 1, ReduceStep(acc, attrs[i]))

EmptyObject == [k \in {} |-> k]

\* the object contentType; in attributes, required = FALSE stands for an
\* attribute without the key "required"
ContentType(tableName, attributes) ==
  [kind           |-> "collectionType",
   collectionName |-> tableName,
   info           |-> [singularName |-> singularNameOf(tableName),
                       pluralName   |-> singularNameOf(tableName) \o <<"s">>,
                       displayName  |-> DisplayName(singularNameOf(tableName)),
                       description  |-> ""],
   draftAndPublish |-> TRUE,
   attributes     |-> Reduce(SelectSeq(attributes, IsKept), 1, EmptyObject)]

\* JSON.stringify of an attribute type: a string is written, a function-valued
\* property is left out, Object.prototype is written as {}
JsonOfType(v) ==
  IF v.jsType = "string" THEN [json |-> "string", text |-> v.value]
  ELSE IF v.jsType = "function" THEN [json |-> "omitted", text |-> ""]
  ELSE [json |-> "object", text |-> "{}"]

\* fs.writeJson(..., contentType, { spaces: 2 }): the text of schema.json
JsonOfContentType(ct) ==
  [ct EXCEPT !.attributes =
     [k \in DOMAIN ct.attributes |->
        [type |-> JsonOfType(ct.attributes[k].type),
         required |-> ct.attributes[k].required]]]

(***************************************************************************)
(* The generated file layout under path.join(process.cwd(), 'src/api').    *)
(* The eight filesystem calls of one table are numbered 1..8:              *)
(* ensureDir and write of content type, controller, service, route.        *)
(***************************************************************************)
Kinds == <<"content-type", "controller", "service", "route">>

Folders == <<"content-types", "controllers", "services", "routes">>

\* the label in the comment of the stub and the factory it calls
Labels == <<"", "controller", "service", "router">>

Factories == <<"", "createCoreController", "createCoreService", "createCoreRouter">>

KindIndex(step) == (step + 1) \div 2

IsWrite(step) == step % 2 = 0

\* contentTypePath / controllerPath / servicePath / routePath
DirOf(tableName, step) ==
  [base   |-> singularNameOf(tableName),
   folder |-> Folders[KindIndex(step)],
   sub    |-> IF KindIndex(step) = 1 THEN singularNameOf(tableName) ELSE <<>>]

\* fs.ensureDir creates the directory and its missing parents
EnsuredDirs(tableName, step) ==
  {DirOf(tableName, step),
   [DirOf(tableName, step) EXCEPT !.sub = <<>>],
   [base |-> singularNameOf(tableName), folder |-> "", sub |-> <<>>]}

\* path.join(contentTypePath, 'schema.json'), path.join(dir, `${singularName}.ts`)
FileOf(tableName, step) ==
  [dir    |-> DirOf(tableName, step),
   stem   |-> IF KindIndex(step) = 1 THEN <<>> ELSE singularNameOf(tableName),
   suffix |-> IF KindIndex(step) = 1 THEN "schema.json" ELSE ".ts"]

\* controllerData / serviceData / routeData
StubOf(tableName, step) ==
  [label        |-> Labels[KindIndex(step)],
   factory      |-> Factories[KindIndex(step)],
   uid          |-> <<singularNameOf(tableName), singularNameOf(tableName)>>]

\* what the write of this step puts into the file: the JSON text of the
\* descriptor (step 2) or the rendered stub (steps 4, 6, 8)
ContentOf(entry, step) ==
  IF KindIndex(step) = 1
  THEN [form |-> "json",
        json |-> <<JsonOfContentType(ContentType(entry.name, entry.columns))>>,
        stub |-> <<>>]
  ELSE [form |-> "ts", json |-> <<>>, stub |-> <<StubOf(entry.name, step)>>]

\* a file that a failed write opened (and so truncated) without filling it
Truncated == [form |-> "truncated", json |-> <<>>, stub |-> <<>>]

\* console.log(`Content type for "${tableName}" created.`) and its siblings
CreatedMessage(tableName, step) ==
  [text |-> "created", kind |-> Kinds[KindIndex(step)], table |-> tableName]

PlainMessage(text) == [text |-> text, kind |-> "", table |-> <<>>]

(***************************************************************************)
(* Control flow of generateModules.                                        *)
(***************************************************************************)
\* variant of Awaited: the write of the controller stub is not awaited
AwaitedExceptControllerWrite(step) == step # 4

\* every filesystem call of the four create methods is awaited, and so is
\* every create method in generateModules
Awaited(step) == TRUE

\* the position that follows the filesystem call `step` of table idx, in a
\* schema of n tables: the next call of the same table, the first call of the
\* next table, or the end of the for loop
NextPos(idx, step, n) ==
  IF step < 8 THEN [at |-> "emit", idx |-> idx, step |-> step + 1]
  ELSE IF idx < n THEN [at |-> "emit", idx |-> idx + 1, step |-> 1]
  ELSE [at |-> "resolved", idx |-> idx + 1, step |-> 1]

\* entering the for loop over Object.entries(schema)
LoopEntry(n) ==
  IF n >= 1 THEN [at |-> "emit", idx |-> 1, step |-> 1]
  ELSE [at |-> "resolved", idx |-> 1, step |-> 1]

\* variant of AfterAwait: a rejected database call is swallowed
AfterAwaitIgnoringDbErrors(ok, cur, next) ==
  IF ok \/ cur.at \in {"connect", "query"} THEN next
  ELSE [cur EXCEPT !.at = "rejected"]

\* variant of AfterAwait: a rejected filesystem call is swallowed
AfterAwaitIgnoringFsErrors(ok, cur, next) ==
  IF ok \/ cur.at = "emit" THEN next
  ELSE [cur EXCEPT !.at = "rejected"]

\* await without try/catch: a fulfilled promise continues at next, a rejected
\* one leaves every enclosing async function, down to .catch in bin/index.js
AfterAwait(ok, cur, next) ==
  IF ok THEN next ELSE [cur EXCEPT !.at = "rejected"]

\* console.log('Modules generated successfully.') runs in the continuation
\* that leaves the for loop
WithSuccessLine(out, cur, next) ==
  IF cur.at # "resolved" /\ next.at = "resolved"
  THEN Append(out, PlainMessage("Modules generated successfully."))
  ELSE out

(***************************************************************************)
(* The inputs of a run.                                                    *)
(***************************************************************************)
TableNames ==
  { <<"t","b","l","_","a">>, <<"t","b","l","_","A">>,
    <<"t","b","l","_","b">>, <<"o","_","b">> }

\* values of SOURCE_DB_TABLE_PREFIX: unset, '', 'tbl_', 'o'
EnvValues ==
  { <<>>, << <<>> >>, << <<"t","b","l","_">> >>, << <<"o">> >> }

CatalogRows ==
  {[TABLE_NAME |-> t, COLUMN_NAME |-> "id", DATA_TYPE |-> "int",
    IS_NULLABLE |-> "NO"] : t \in TableNames}
  \cup
  {[TABLE_NAME |-> t, COLUMN_NAME |-> "name", DATA_TYPE |-> "varchar",
    IS_NULLABLE |-> "YES"] : t \in TableNames}

\* a catalog lists each column of each table once
Catalogs ==
  {c \in UNION {[1..n -> CatalogRows] : n \in 0..MaxRows} :
     \A i, j \in 1..Len(c) : i # j => c[i] # c[j]}

NoCall ==
  [fn |-> "none", dataType |-> "", tableName |-> <<>>, attributes |-> <<>>,
   ret |-> <<>>]

Init ==
  /\ env \in EnvValues
  /\ tablePrefix = Constructor(env)
  /\ catalog \in Catalogs
  /\ conn = "none"
  /\ queryRows = <<>>
  /\ queryResult = "none"
  /\ schema = <<>>
  /\ schemaReads = 0
  /\ pc = [at |-> "start", idx |-> 1, step |-> 1]
  /\ awaiting = FALSE
  /\ pending = {}
  /\ dirs = {}
  /\ files = EmptyObject
  /\ writeLog = <<>>
  /\ errors = <<>>
  /\ stdout = <<>>
  /\ stderr = <<>>
  /\ exitStatus = <<>>
  /\ call = NoCall

(***************************************************************************)
(* bin/index.js and generateModules, one action per continuation.          *)
(***************************************************************************)
\* bin/index.js lines 5-6 up to the first await: generateModules calls
\* getDatabaseSchema, which calls mysql.createConnection
Start ==
  /\ pc.at = "start"
  /\ stdout' = Append(stdout, PlainMessage("Starting generate..."))
  /\ schemaReads' = schemaReads + 1
  /\ pc' = [pc EXCEPT !.at = "connect"]
  /\ UNCHANGED <<env, tablePrefix, catalog, conn, queryRows, queryResult,
                 schema, awaiting, pending, dirs, files, writeLog, errors,
                 stderr, exitStatus, call>>

\* await mysql.createConnection(...) settles; connection.query is issued
Connect(ok) ==
  /\ pc.at = "connect"
  /\ conn' = IF ok THEN "open" ELSE conn
  /\ errors' = IF ok THEN errors ELSE Append(errors, "ConnectionError")
  /\ pc' = AfterAwait(ok, pc, [pc EXCEPT !.at = "query"])
  /\ UNCHANGED <<env, tablePrefix, catalog, queryRows, queryResult, schema,
                 schemaReads, awaiting, pending, dirs, files, writeLog,
                 stdout, stderr, exitStatus, call>>

\* await connection.query(...) settles; connection.end() is issued
Query(ok) ==
  /\ pc.at = "query"
  /\ queryRows' = IF ok THEN catalog ELSE queryRows
  /\ queryResult' = IF ok THEN "rows" ELSE "error"
  /\ errors' = IF ok THEN errors ELSE Append(errors, "QueryError")
  /\ pc' = AfterAwait(ok, pc, [pc EXCEPT !.at = "end"])
  /\ UNCHANGED <<env, tablePrefix, catalog, conn, schema, schemaReads,
                 awaiting, pending, dirs, files, writeLog, stdout, stderr,
                 exitStatus, call>>

\* await connection.end() settles; the rows are grouped, getDatabaseSchema
\* returns and generateModules enters its for loop
EndConnection ==
  /\ pc.at = "end"
  /\ conn' = "closed"
  /\ schema' = BuildSchema(queryRows, tablePrefix)
  /\ pc' = LoopEntry(Len(schema'))
  /\ stdout' = WithSuccessLine(stdout, pc, pc')
  /\ UNCHANGED <<env, tablePrefix, catalog, queryRows, queryResult,
                 schemaReads, awaiting, pending, dirs, files, writeLog,
                 errors, stderr, exitStatus, call>>

\* the create method of pc calls fs.ensureDir / fs.writeJson / fs.writeFile.
\* An awaited call suspends generateModules until it settles; a call that is
\* not awaited lets it run on to its next position at once.
IssueFsOp ==
  /\ pc.at = "emit"
  /\ ~awaiting
  /\ pending' = pending \cup {[idx |-> pc.idx, step |-> pc.step]}
  /\ IF Awaited(pc.step)
     THEN /\ awaiting' = TRUE
          /\ UNCHANGED <<pc, stdout>>
     ELSE /\ awaiting' = FALSE
          /\ pc' = NextPos(pc.idx, pc.step, Len(schema))
          /\ stdout' = WithSuccessLine(
                         IF IsWrite(pc.step)
                         THEN Append(stdout, CreatedMessage(schema[pc.idx].name, pc.step))
                         ELSE stdout, pc, pc')
  /\ UNCHANGED <<env, tablePrefix, catalog, conn, queryRows, queryResult,
                 schema, schemaReads, dirs, files, writeLog, errors, stderr,
                 exitStatus, call>>

\* a filesystem call settles.  Fulfilled: the directory (with its parents)
\* or the file exists.  Rejected: a directory call changes nothing; a write
\* either failed before opening the file or after truncating it.
SettleFsOp(op, ok, truncates) ==
  LET entry  == schema[op.idx]
      isCur  == awaiting /\ pc.at = "emit" /\ op = [idx |-> pc.idx, step |-> pc.step]
      path   == FileOf(entry.name, op.step)
      put(c) == [f \in (DOMAIN files) \cup {path} |-> IF f = path THEN c ELSE files[f]]
  IN
  /\ op \in pending
  /\ pending' = pending \ {op}
  /\ dirs' = IF ok /\ ~IsWrite(op.step)
             THEN dirs \cup EnsuredDirs(entry.name, op.step) ELSE dirs
  /\ files' = IF ok /\ IsWrite(op.step) THEN put(ContentOf(entry, op.step))
              ELSE IF ~ok /\ IsWrite(op.step) /\ truncates THEN put(Truncated)
              ELSE files
  /\ writeLog' = IF ok /\ IsWrite(op.step)
                 THEN Append(writeLog, [table |-> entry.name,
                                        kind  |-> Kinds[KindIndex(op.step)],
                                        path  |-> path])
                 ELSE writeLog
  /\ errors' = IF ok THEN errors ELSE Append(errors, "FilesystemError")
  /\ IF isCur
     THEN /\ awaiting' = FALSE
          /\ pc' = AfterAwait(ok, pc, NextPos(pc.idx, pc.step, Len(schema)))
          /\ stdout' = IF pc'.at = "rejected" THEN stdout
                       ELSE WithSuccessLine(
                              IF IsWrite(op.step)
                              THEN Append(stdout, CreatedMessage(entry.name, op.step))
                              ELSE stdout, pc, pc')
     ELSE UNCHANGED <<awaiting, pc, stdout>>
  /\ UNCHANGED <<env, tablePrefix, catalog, conn, queryRows, queryResult,
                 schema, schemaReads, stderr, exitStatus, call>>

\* .then(() => console.log('Generation complete!'))
ThenHandler ==
  /\ pc.at = "resolved"
  /\ stdout' = Append(stdout, PlainMessage("Generation complete!"))
  /\ pc' = [pc EXCEPT !.at = "settled"]
  /\ UNCHANGED <<env, tablePrefix, catalog, conn, queryRows, queryResult,
                 schema, schemaReads, awaiting, pending, dirs, files,
                 writeLog, errors, stderr, exitStatus, call>>

\* .catch((err) => console.error('Error generating modules:', err))
CatchHandler ==
  /\ pc.at = "rejected"
  /\ stderr' = Append(stderr, errors[Len(errors)])
  /\ pc' = [pc EXCEPT !.at = "settled"]
  /\ UNCHANGED <<env, tablePrefix, catalog, conn, queryRows, queryResult,
                 schema, schemaReads, awaiting, pending, dirs, files,
                 writeLog, errors, stdout, exitStatus, call>>

\* bin/index.js never calls process.exit and never sets process.exitCode, and
\* the rejection is handled: node exits with status 0 once nothing keeps the
\* event loop alive (an open connection does)
ProcessExit ==
  /\ pc.at = "settled"
  /\ conn # "open"
  /\ pending = {}
  /\ exitStatus' = <<0>>
  /\ pc' = [pc EXCEPT !.at = "exited"]
  /\ UNCHANGED <<env, tablePrefix, catalog, conn, queryRows, queryResult,
                 schema, schemaReads, awaiting, pending, dirs, files,
                 writeLog, errors, stdout, stderr, call>>

Next ==
  \/ Start
  \/ \E ok \in BOOLEAN : Connect(ok)
  \/ \E ok \in BOOLEAN : Query(ok)
  \/ EndConnection
  \/ IssueFsOp
  \/ \E op \in pending, ok \in BOOLEAN, truncates \in BOOLEAN :
       SettleFsOp(op, ok, truncates)
  \/ ThenHandler
  \/ CatchHandler
  \/ ProcessExit

Spec == Init /\ [][Next]_vars

(***************************************************************************)
(* Direct calls of the pure methods (specification SpecPure).              *)
(***************************************************************************)
\* values of DATA_TYPE: the ten keys of typeMapping, other catalog types,
\* the empty string, an upper-case spelling, and names of members of
\* Object.prototype
DataTypes ==
  (DOMAIN typeMapping)
  \cup {"json", "enum", "char", "timestamp", "", "INT"}
  \cup {"constructor", "toString", "valueOf", "hasOwnProperty", "__proto__"}

ColumnDescriptors ==
  [name     : {"id", "name", "created_at", "__proto__"},
   type     : {"int", "json", "constructor"},
   required : BOOLEAN]

\* the columns of one table have distinct names
ColumnLists ==
  {a \in UNION {[1..n -> ColumnDescriptors] : n \in 0..MaxCols} :
     \A i, j \in 1..Len(a) : i # j => a[i].name # a[j].name}

\* the calls made directly: a method, its arguments and, once it has
\* returned, its value as ret[1]
PureCalls ==
  {[fn |-> "mapDataTypeToStrapi", dataType |-> t, tableName |-> <<>>,
    attributes |-> <<>>, ret |-> <<>>] : t \in DataTypes}
  \cup
  {[fn |-> "createContentType", dataType |-> "", tableName |-> t,
    attributes |-> a, ret |-> <<>>] : t \in TableNames, a \in ColumnLists}

InitPure ==
  /\ env = <<>>
  /\ tablePrefix = Constructor(env)
  /\ catalog = <<>>
  /\ conn = "none"
  /\ queryRows = <<>>
  /\ queryResult = "none"
  /\ schema = <<>>
  /\ schemaReads = 0
  /\ pc = [at |-> "start", idx |-> 1, step |-> 1]
  /\ awaiting = FALSE
  /\ pending = {}
  /\ dirs = {}
  /\ files = EmptyObject
  /\ writeLog = <<>>
  /\ errors = <<>>
  /\ stdout = <<>>
  /\ stderr = <<>>
  /\ exitStatus = <<>>
  /\ call \in PureCalls

ReturnMapDataTypeToStrapi ==
  /\ call.fn = "mapDataTypeToStrapi"
  /\ call.ret = <<>>
  /\ call' = [call EXCEPT !.ret = <<mapDataTypeToStrapi(call.dataType)>>]
  /\ UNCHANGED runVars

\* the descriptor createContentType builds (lines 103-123) for its arguments
ReturnCreateContentType ==
  /\ call.fn = "createContentType"
  /\ call.ret = <<>>
  /\ call' = [call EXCEPT !.ret = <<ContentType(call.tableName, call.attributes)>>]
  /\ UNCHANGED runVars

NextPure ==
  \/ ReturnMapDataTypeToStrapi
  \/ ReturnCreateContentType

SpecPure == InitPure /\ [][NextPure]_vars

(***************************************************************************)
(* Properties.                                                             *)
(***************************************************************************)
\* getDatabaseSchema has been called and has returned or thrown
SchemaReadEnded == schemaReads >= 1 /\ pc.at \notin {"connect", "query", "end"}

FsTouched ==
  dirs # {} \/ DOMAIN files # {} \/ pending # {} \/ writeLog # <<>>

Contains(seq, x) == \E i \in 1..Len(seq) : seq[i] = x

CatalogTables == {catalog[i].TABLE_NAME : i \in 1..Len(catalog)}

\* C1: whenever getDatabaseSchema has ended, by returning the schema or by
\* throwing, the connection it opened is not open any more.
C1_ConnectionReleased == SchemaReadEnded => conn # "open"

\* C2: the exit status of the process is 0 when generateModules completed
\* and non-zero when it failed.
C2_ExitStatusReflectsOutcome ==
  exitStatus # <<>> => (exitStatus[1] = 0 <=> errors = <<>>)

\* C3 (as stated): the singular name written for a table that starts with the
\* configured prefix is the kebab case of the table name without the prefix;
\* pluralName is that name followed by "s", the path is built from it and
\* collectionName is the full table name.
C3_SingularNameDropsPrefix ==
  \A i \in 1..Len(writeLog) :
    LET w == writeLog[i]
        expected == toKebabCase(StripPrefix(w.table, tablePrefix))
    IN /\ w.path.dir.base = expected
       /\ (w.kind = "content-type" /\ files[w.path].form = "json") =>
             \/ files[w.path].json[1].collectionName # w.table
             \/ /\ files[w.path].json[1].info.singularName = expected
                /\ files[w.path].json[1].info.pluralName = expected \o <<"s">>

\* C3 (amended): the singular name written for a table is the kebab case of
\* the full table name, prefix included; pluralName is that name followed by
\* "s", the path is built from it and collectionName is the full table name.
C3_SingularNameKeepsPrefix ==
  \A i \in 1..Len(writeLog) :
    LET w == writeLog[i]
        expected == toKebabCase(w.table)
    IN /\ StartsWith(w.table, tablePrefix)
       /\ w.path.dir.base = expected
       /\ (w.kind = "content-type" /\ files[w.path].form = "json") =>
             /\ HasTable(schema, files[w.path].json[1].collectionName)
             /\ files[w.path].json[1].info.singularName =
                  toKebabCase(files[w.path].json[1].collectionName)
             /\ files[w.path].json[1].info.singularName = w.path.dir.base
             /\ files[w.path].json[1].info.pluralName =
                  files[w.path].json[1].info.singularName \o <<"s">>

\* a run with SOURCE_DB_TABLE_PREFIX=tbl_ has written the descriptor of tbl_a
C3_Witness ==
  /\ env = << <<"t","b","l","_">> >>
  /\ \E i \in 1..Len(writeLog) :
       /\ writeLog[i].kind = "content-type"
       /\ writeLog[i].table = <<"t","b","l","_","a">>
       /\ files[writeLog[i].path].form = "json"
       /\ files[writeLog[i].path].json[1].info.pluralName =
            <<"t","b","l","-","a","s">>

\* C4: with SOURCE_DB_TABLE_PREFIX unset or empty the schema holds every table
\* of the catalog; with a prefix it holds exactly the tables that start with it.
C4_PrefixFilter ==
  (queryResult = "rows" /\ conn = "closed") =>
     IF env = <<>> \/ env[1] = <<>>
     THEN TablesOf(schema) = CatalogTables
     ELSE TablesOf(schema) = {t \in CatalogTables : StartsWith(t, env[1])}

\* the mapping of section 4.1 of the specification
DocumentedTypes ==
  [int |-> "integer", bigint |-> "biginteger", varchar |-> "string",
   text |-> "text", datetime |-> "datetime", date |-> "date",
   tinyint |-> "boolean", decimal |-> "float", double |-> "float",
   float |-> "float"]

\* C5: mapDataTypeToStrapi returns a string for every input: the documented
\* target type for the ten documented types, "string" for anything else.
C5_MapTypeTotal ==
  (call.fn = "mapDataTypeToStrapi" /\ call.ret # <<>>) =>
     /\ call.ret[1].jsType = "string"
     /\ call.ret[1].value =
          IF call.dataType \in DOMAIN DocumentedTypes
          THEN DocumentedTypes[call.dataType] ELSE "string"

\* generateModules has left its for loop without any error
RunSucceeded == pc.at \in {"resolved", "settled", "exited"} /\ errors = <<>>

\* C6: a run without failure over a schema of N tables leaves 4*N distinct
\* files, and no two tables of the schema share a path.
C6_FourFilesPerTable ==
  RunSucceeded =>
     /\ Cardinality(DOMAIN files) = 4 * Len(schema)
     /\ \A i, j \in 1..Len(writeLog) :
          writeLog[i].table # writeLog[j].table =>
             writeLog[i].path # writeLog[j].path

\* C7: the attributes of the descriptor have as keys exactly the column names
\* outside the exclusion set; each maps to mapDataTypeToStrapi of the type of
\* its column and carries required exactly when the column is required.
C7_AttributesExact ==
  (call.fn = "createContentType" /\ call.ret # <<>>) =>
     LET attrs == call.ret[1].attributes
         cols  == call.attributes
     IN /\ DOMAIN attrs =
             {cols[i].name : i \in 1..Len(cols)} \ excludedFields
        /\ \A i \in 1..Len(cols) :
             cols[i].name \in DOMAIN attrs =>
                /\ attrs[cols[i].name].type = mapDataTypeToStrapi(cols[i].type)
                /\ attrs[cols[i].name].required = cols[i].required

\* the writes of a run over sch that nothing interrupts: for each table in
\* order, content type, controller, service, route
ExpectedWrites(sch) ==
  [k \in 1..(4 * Len(sch)) |->
     [table |-> sch[((k - 1) \div 4) + 1].name,
      kind  |-> Kinds[((k - 1) % 4) + 1]]]

\* C8: the schema is read once; the writes happen in the order content type,
\* controller, service, route, table after table; at most one filesystem call
\* is in flight, it is the one generateModules waits for, and every write
\* before it has completed.
C8_SequentialFixedOrder ==
  /\ schemaReads <= 1
  /\ FsTouched => schemaReads = 1
  /\ Len(writeLog) <= 4 * Len(schema)
  /\ \A k \in 1..Len(writeLog) :
       /\ writeLog[k].table = ExpectedWrites(schema)[k].table
       /\ writeLog[k].kind = ExpectedWrites(schema)[k].kind
  /\ Cardinality(pending) <= 1
  /\ \A op \in pending :
       /\ awaiting /\ pc.at = "emit"
       /\ op = [idx |-> pc.idx, step |-> pc.step]
       /\ Len(writeLog) = 4 * (op.idx - 1) + ((op.step - 1) \div 2)
  /\ RunSucceeded => Len(writeLog) = 4 * Len(schema)

\* two tables have been written completely
C8_Witness ==
  /\ Len(schema) = 2
  /\ Len(writeLog) = 8
  /\ writeLog[4].table # writeLog[5].table

\* C9: nothing is written and no directory is created unless the connection
\* was made, the catalog query answered and getDatabaseSchema returned; a run
\* whose connection or query failed touches no file and no directory.
C9_NoWriteWithoutSchema ==
  /\ FsTouched =>
       /\ queryResult = "rows"
       /\ conn = "closed"
       /\ SchemaReadEnded
       /\ \A i \in 1..Len(errors) : errors[i] = "FilesystemError"
  /\ (Contains(errors, "ConnectionError") \/ Contains(errors, "QueryError")) =>
       ~FsTouched /\ pc.at \in {"rejected", "settled", "exited"}

\* the connection could not be made and the run has reported the error
C9_Witness ==
  /\ errors = <<"ConnectionError">>
  /\ stderr = <<"ConnectionError">>
  /\ Len(catalog) >= 1
  /\ ~FsTouched

\* C10: once a directory creation or a file write has failed, no filesystem
\* call is issued or retried, no file or directory changes, every file written
\* earlier is still there, and neither success message is printed.
C10_WriteFailureIsFatal ==
  [][ Contains(errors, "FilesystemError") =>
        /\ files' = files
        /\ dirs' = dirs
        /\ writeLog' = writeLog
        /\ pending' = {}
        /\ \A i \in 1..Len(writeLog) : writeLog[i].path \in DOMAIN files'
        /\ ~Contains(stdout', PlainMessage("Modules generated successfully."))
        /\ ~Contains(stdout', PlainMessage("Generation complete!"))
        /\ pc'.at \in {"rejected", "settled", "exited"} ]_vars

\* a write failed after files had been written, and the process has exited
C10_Witness ==
  /\ errors = <<"FilesystemError">>
  /\ Len(writeLog) >= 5
  /\ pc.at = "exited"

====
